---- MODULE Spec2Model ----
(***************************************************************************)
(* Verification model of optimum/neuron/utils/cache_utils.py: the          *)
(* NeuronHash fingerprint (compute_hash and its memoisation), and the      *)
(* remote cache on the Hub (get_cached_model_on_the_hub,                   *)
(* download_cached_model_from_hub, push_to_cache_on_hub).                  *)
(*                                                                         *)
(* Processes are operating system processes: each has its own copy of the  *)
(* module state (the class attributes of NeuronHash among it) and its own  *)
(* local file system view; all of them talk to the same Hub.               *)
(***************************************************************************)
EXTENDS Integers, Sequences, FiniteSets, TLC

VARIABLES
    _hash,          \* per process: the _MutableHashAttribute object that is the class-level default of NeuronHash._hash
    instances,      \* per process: the NeuronHash instances constructed so far, in order of construction
    returned,       \* per process and instance: the pair the latest compute_hash() on that instance returned
    hash_runs,      \* per process and instance: how often the two-stage hashing body ran on behalf of that instance
    last_call,      \* per process: the latest call on a NeuronHash of the process: what, on which instance, its value
    HF_HUB_CACHE_REPOS, \* the module-level list of cache repositories: repo ids and (repo_id, revision) tuples
    NEURON_CC_FLAGS,    \* per process: os.environ["NEURON_CC_FLAGS"]
    remote,         \* the Hub: for each repository and revision, the files it holds (path in the repo, content)
    fs,             \* per process: the local file system (the files and the directories that exist)
    pc,             \* per process: where the process is in the Hub call it is running
    frame,          \* per process: the arguments and local variables of that call, and its outcome
    history         \* per process: the outcomes of the Hub calls it has completed, oldest first

hash_vars == <<_hash, instances, returned, hash_runs, last_call>>

hub_vars == <<HF_HUB_CACHE_REPOS, NEURON_CC_FLAGS, remote, fs, pc, frame, history>>

vars == <<hash_vars, hub_vars>>

-----------------------------------------------------------------------------
(* Bounds of the model *)

Procs == {"p1", "p2"}

\* Instances one process constructs.
MaxInstances == 2

-----------------------------------------------------------------------------
(* Inputs of NeuronHash *)

\* The model object: its weights (state_dict) and its config.model_type.
Models == { [state_dict |-> w, model_type |-> "bert"] : w \in { [w |-> 1], [w |-> 2] } }

BaseFingerprint ==
    [ model                   |-> [state_dict |-> [w |-> 1], model_type |-> "bert"],
      input_shapes            |-> <<1, 128>>,
      data_type               |-> "float32",
      num_neuron_cores        |-> 2,
      neuron_compiler_version |-> "2.10" ]

AllFingerprints ==
    [ model                   : Models,
      input_shapes            : {<<1, 128>>, <<1, 256>>},
      data_type               : {"float32", "bfloat16"},
      num_neuron_cores        : {1, 2},
      neuron_compiler_version : {"2.10", "2.11"} ]

FieldNames ==
    {"model", "input_shapes", "data_type", "num_neuron_cores", "neuron_compiler_version"}

DifferingFields(f, g) == { n \in FieldNames : f[n] # g[n] }

\* The fingerprints the model constructs: the base one and every fingerprint
\* that differs from it in exactly one field.
Fingerprints == { f \in AllFingerprints : Cardinality(DifferingFields(f, BaseFingerprint)) <= 1 }

-----------------------------------------------------------------------------
(* Hashing *)

\* SHA-256, taken as injective: the digest of a content is the printed content.
sha256(content) == ToString(content)

\* xm.save(obj, filename): the bytes of the file are the serialisation of obj,
\* the values of a dict in the order of its keys, a nested dict likewise.
xm_save(obj) ==
    IF DOMAIN obj = {"model", "input_shapes", "data_type", "num_neuron_cores",
                     "neuron_compiler_version", "_hash"}
    THEN << obj.model, obj.input_shapes, obj.data_type, obj.num_neuron_cores,
            obj.neuron_compiler_version, <<obj._hash.model_hash, obj._hash.overall_hash>> >>
    ELSE obj

\* compute_file_sha256_hash(filename) of a file with these bytes.
compute_file_sha256_hash(bytes) == sha256(bytes)

EmptyHash == [model_hash |-> "", overall_hash |-> ""]

\* _MutableHashAttribute.is_empty
is_empty(h) == (h.model_hash = "") \/ (h.overall_hash = "")

\* NeuronHash.hash_dict: asdict(self), which holds the _hash field too, with
\* the model replaced by its state_dict.
hash_dict(self, h) ==
    [ model                   |-> self.model.state_dict,
      input_shapes            |-> self.input_shapes,
      data_type               |-> self.data_type,
      num_neuron_cores        |-> self.num_neuron_cores,
      neuron_compiler_version |-> self.neuron_compiler_version,
      _hash                   |-> h ]

\* The two-stage hashing work of compute_hash (the body of its if).
hashing_work(self, h) ==
    [ model_hash   |-> compute_file_sha256_hash(xm_save(self.model.state_dict)),
      overall_hash |-> compute_file_sha256_hash(xm_save(hash_dict(self, h))) ]

\* A compute_hash that lost its "if self._hash.is_empty" guard.
compute_hash_unguarded(self, h) ==
    [ hash |-> hashing_work(self, h), ran |-> 1 ]

\* NeuronHash.compute_hash on instance self while self._hash is h: the value
\* of self._hash afterwards (the pair returned is its two fields) and the number
\* of times the hashing work ran.
compute_hash(self, h) ==
    IF is_empty(h)
    THEN [ hash |-> hashing_work(self, h), ran |-> 1 ]
    ELSE [ hash |-> h, ran |-> 0 ]

\* s.split("/"): the pieces of the text s between its "/" characters.
split(s) ==
    LET slashes == { k \in 1..Len(s) : SubSeq(s, k, k) = "/" }
        n == Cardinality(slashes)
        pos(j) == IF j = 0 THEN 0
                  ELSE IF j = n + 1 THEN Len(s) + 1
                  ELSE CHOOSE k \in slashes : Cardinality({ m \in slashes : m < k }) = j - 1
    IN [ j \in 1..(n + 1) |-> SubSeq(s, pos(j - 1) + 1, pos(j) - 1) ]

\* "/".join(segments)
RECURSIVE join(_)
join(segments) ==
    IF segments = <<>> THEN ""
    ELSE IF Len(segments) = 1 THEN segments[1]
    ELSE segments[1] \o "/" \o join(Tail(segments))

\* pathlib.Path(s): the parts of the path, "/" first when it is absolute; empty
\* and "." components are dropped. Path(".") and Path("") have no parts.
Path(s) ==
    (IF Len(s) > 0 /\ SubSeq(s, 1, 1) = "/" THEN <<"/">> ELSE <<>>)
        \o SelectSeq(split(s), LAMBDA c : c # "" /\ c # ".")

\* Path.as_posix()
as_posix(path) ==
    IF path = <<>> THEN "."
    ELSE IF path[1] = "/" THEN "/" \o join(Tail(path))
    ELSE join(path)

\* Path.parent
parent(path) == IF Len(path) <= 1 THEN path ELSE SubSeq(path, 1, Len(path) - 1)

\* Path.name
name(path) == IF path = <<>> \/ path = <<"/">> THEN "" ELSE path[Len(path)]

\* NeuronHash.folders, given the pair compute_hash returned.
folders(self, h) ==
    << self.neuron_compiler_version, self.model.model_type, h.model_hash, h.overall_hash >>

\* NeuronHash.cache_path: Path("/".join(self.folders)).
cache_path(self, h) == Path(join(folders(self, h)))

-----------------------------------------------------------------------------
(* Operations on NeuronHash *)

\* What a compute_hash() call on instance i of process p does to the state.
CallComputeHash(p, i) ==
    LET r == compute_hash(instances[p][i], _hash[p]) IN
    /\ _hash' = [_hash EXCEPT ![p] = r.hash]
    /\ hash_runs' = [hash_runs EXCEPT ![p][i] = @ + r.ran]
    /\ returned' = [returned EXCEPT ![p][i] = r.hash]

\* NeuronHash(model, input_shapes, data_type, num_neuron_cores,
\* neuron_compiler_version): the dataclass __init__ followed by __post_init__,
\* which calls compute_hash().
Construct(p, f) ==
    /\ Len(instances[p]) < MaxInstances
    /\ LET r == compute_hash(f, _hash[p]) IN
        /\ instances' = [instances EXCEPT ![p] = Append(@, f)]
        /\ _hash' = [_hash EXCEPT ![p] = r.hash]
        /\ hash_runs' = [hash_runs EXCEPT ![p] = Append(@, r.ran)]
        /\ returned' = [returned EXCEPT ![p] = Append(@, r.hash)]
    /\ last_call' = [last_call EXCEPT ![p] =
            [op |-> "__post_init__", inst |-> Len(instances[p]) + 1, value |-> <<>>]]
    /\ UNCHANGED hub_vars

\* An explicit compute_hash() call on an instance.
ComputeHash(p, i) ==
    /\ i \in 1..Len(instances[p])
    /\ CallComputeHash(p, i)
    /\ last_call' = [last_call EXCEPT ![p] =
            [op |-> "compute_hash", inst |-> i,
             value |-> <<_hash'[p].model_hash, _hash'[p].overall_hash>>]]
    /\ UNCHANGED <<instances, hub_vars>>

\* An access of the folders property.
Folders(p, i) ==
    /\ i \in 1..Len(instances[p])
    /\ CallComputeHash(p, i)
    /\ last_call' = [last_call EXCEPT ![p] =
            [op |-> "folders", inst |-> i, value |-> folders(instances[p][i], _hash'[p])]]
    /\ UNCHANGED <<instances, hub_vars>>

\* An access of the cache_path property.
CachePath(p, i) ==
    /\ i \in 1..Len(instances[p])
    /\ CallComputeHash(p, i)
    /\ last_call' = [last_call EXCEPT ![p] =
            [op |-> "cache_path", inst |-> i, value |-> cache_path(instances[p][i], _hash'[p])]]
    /\ UNCHANGED <<instances, hub_vars>>

NoCall == [op |-> "none", inst |-> 0, value |-> <<>>]

HashInit ==
    /\ _hash = [p \in Procs |-> EmptyHash]
    /\ instances = [p \in Procs |-> <<>>]
    /\ returned = [p \in Procs |-> <<>>]
    /\ hash_runs = [p \in Procs |-> <<>>]
    /\ last_call = [p \in Procs |-> NoCall]

HashNext ==
    \/ \E p \in Procs, f \in Fingerprints : Construct(p, f)
    \/ \E p \in Procs, i \in 1..MaxInstances : ComputeHash(p, i)
    \/ \E p \in Procs, i \in 1..MaxInstances : Folders(p, i)
    \/ \E p \in Procs, i \in 1..MaxInstances : CachePath(p, i)

-----------------------------------------------------------------------------
(* The cache path resolver *)

\* Python's None, where a text is expected.
None == "<None>"

\* Python's None, where a path is expected.
NonePath == <<None>>

NEURON_COMPILE_CACHE_NAME == "neuron-compile-cache"

\* The characters the regular expression class [\w\/] accepts.
WordOrSlash ==
    { "a", "b", "c", "d", "e", "f", "g", "h", "i", "j", "k", "l", "m",
      "n", "o", "p", "q", "r", "s", "t", "u", "v", "w", "x", "y", "z",
      "A", "B", "C", "D", "E", "F", "G", "H", "I", "J", "K", "L", "M",
      "N", "O", "P", "Q", "R", "S", "T", "U", "V", "W", "X", "Y", "Z",
      "0", "1", "2", "3", "4", "5", "6", "7", "8", "9", "_", "/" }

\* sub in s
Contains(s, sub) ==
    \E k \in 1..(Len(s) - Len(sub) + 1) : SubSeq(s, k, k + Len(sub) - 1) = sub

\* The end of the longest run of [\w\/] characters of s that starts at position k
\* (k - 1 when there is none).
run_end(s, k) ==
    LET stops == { j \in k..(Len(s) + 1) : j = Len(s) + 1 \/ SubSeq(s, j, j) \notin WordOrSlash }
    IN (CHOOSE j \in stops : \A m \in stops : j <= m) - 1

\* re.search(r"--cache_dir=([\w\/]+)", s): the leftmost match, as the start and
\* the end of group 1, or start 0 when there is no match.
search_cache_dir(s) ==
    LET lit == "--cache_dir="
        starts == { k \in 1..(Len(s) - Len(lit) + 1) :
                      /\ SubSeq(s, k, k + Len(lit) - 1) = lit
                      /\ run_end(s, k + Len(lit)) >= k + Len(lit) }
    IN IF starts = {} THEN [start |-> 0, end |-> 0]
       ELSE LET k == CHOOSE x \in starts : \A y \in starts : x <= y
            IN [start |-> k + Len(lit), end |-> run_end(s, k + Len(lit))]

\* A resolver for which a --cache_dir override beats the --no-cache marker.
get_neuron_cache_path_override_first(neuron_cc_flags) ==
    LET match_ == search_cache_dir(neuron_cc_flags)
    IN IF match_.start # 0
       THEN Path(SubSeq(neuron_cc_flags, match_.start, match_.end)) \o <<NEURON_COMPILE_CACHE_NAME>>
       ELSE IF Contains(neuron_cc_flags, "--no-cache")
       THEN NonePath
       ELSE Path("/var/tmp") \o <<NEURON_COMPILE_CACHE_NAME>>

\* get_neuron_cache_path() when NEURON_CC_FLAGS is neuron_cc_flags.
get_neuron_cache_path(neuron_cc_flags) ==
    IF Contains(neuron_cc_flags, "--no-cache")
    THEN NonePath
    ELSE LET match_ == search_cache_dir(neuron_cc_flags)
             path == IF match_.start # 0
                     THEN Path(SubSeq(neuron_cc_flags, match_.start, match_.end))
                     ELSE Path("/var/tmp")
         IN path \o <<NEURON_COMPILE_CACHE_NAME>>

\* s.replace(old, new): every occurrence of old, from the left, without overlap.
RECURSIVE replace(_, _, _)
replace(s, old, new) ==
    LET at == { k \in 1..(Len(s) - Len(old) + 1) : SubSeq(s, k, k + Len(old) - 1) = old }
    IN IF at = {} THEN s
       ELSE LET k == CHOOSE x \in at : \A y \in at : x <= y
            IN SubSeq(s, 1, k - 1) \o new \o replace(SubSeq(s, k + Len(old), Len(s)), old, new)

\* A neuron_cache_path argument: a str, or a Path made of the text.
posix_argument(arg) == IF arg.is_path THEN as_posix(Path(arg.text)) ELSE arg.text

\* A set_neuron_cache_path that takes ignore_no_cache for True, whatever it is.
set_neuron_cache_path_forced(neuron_cc_flags, neuron_cache_path, ignore_no_cache) ==
    LET stripped == replace(neuron_cc_flags, "--no-cache", "")
        match_ == search_cache_dir(stripped)
    IN [ error |-> "",
         flags |-> IF match_.start # 0
                   THEN SubSeq(stripped, 1, match_.start - 1) \o posix_argument(neuron_cache_path)
                            \o SubSeq(stripped, match_.end + 1, Len(stripped))
                   ELSE stripped \o " --cache_dir=" \o posix_argument(neuron_cache_path) ]

\* set_neuron_cache_path(neuron_cache_path, ignore_no_cache) when
\* NEURON_CC_FLAGS is neuron_cc_flags: the error it raises ("": none) and
\* the value of NEURON_CC_FLAGS afterwards.
set_neuron_cache_path(neuron_cc_flags, neuron_cache_path, ignore_no_cache) ==
    IF Contains(neuron_cc_flags, "--no-cache") /\ ~ ignore_no_cache
    THEN [ error |-> "ValueError", flags |-> neuron_cc_flags ]
    ELSE LET stripped == IF Contains(neuron_cc_flags, "--no-cache")
                         THEN replace(neuron_cc_flags, "--no-cache", "")
                         ELSE neuron_cc_flags
             match_ == search_cache_dir(stripped)
         IN [ error |-> "",
              flags |-> IF match_.start # 0
                        THEN SubSeq(stripped, 1, match_.start - 1) \o posix_argument(neuron_cache_path)
                                 \o SubSeq(stripped, match_.end + 1, Len(stripped))
                        ELSE stripped \o " --cache_dir=" \o posix_argument(neuron_cache_path) ]

-----------------------------------------------------------------------------
(* The Hub *)

\* The entries HF_HUB_CACHE_REPOS may hold: a repo id (a one-element sequence
\* here) or a (repo_id, revision) tuple.
RepoEntries == { <<"r1">>, <<"r2", "dev">> }

\* Length of HF_HUB_CACHE_REPOS.
MaxRepos == 2

RECURSIVE SeqsUpTo(_, _)
SeqsUpTo(S, n) ==
    IF n = 0 THEN { <<>> }
    ELSE LET shorter == SeqsUpTo(S, n - 1)
         IN shorter \cup { Append(q, x) : q \in shorter, x \in S }

\* The lists of the model: every entry at most once.
RepoLists ==
    { l \in SeqsUpTo(RepoEntries, MaxRepos) :
        l # <<>> /\ \A a, b \in 1..Len(l) : a # b => l[a] # l[b] }

\* The repositories and revisions that exist on the Hub.
RemoteKeys == { <<"r1", "main">>, <<"r2", "main">>, <<"r2", "dev">> }

\* isinstance(repo_id, tuple)
is_tuple(entry) == Len(entry) = 2

\* The paths HfApi().list_repo_files(repo_id, revision=revision) returns.
list_repo_files(store, repo_id, revision) ==
    { f.path : f \in store[<<repo_id, revision>>] }

\* CachedModelOnTheHub(repo_id, folder, revision), __post_init__ included.
CachedModelOnTheHub(repo_id, folder, revision) ==
    [repo_id |-> repo_id, folder |-> as_posix(folder), revision |-> revision]

\* cached_model = None
NoModel == [repo_id |-> None, folder |-> None, revision |-> None]

\* A local_cache_dir_or_file: a file, a directory holding the artifact, a
\* directory holding it in a subdirectory.
LocalArtifacts ==
    { [is_dir |-> FALSE, path |-> <<"/", "out", "model.neff">>, files |-> { <<"model.neff">> }],
      [is_dir |-> TRUE,  path |-> <<"/", "out">>,               files |-> { <<"model.neff">> }],
      [is_dir |-> TRUE,  path |-> <<"/", "out">>,               files |-> { <<"sub", "model.neff">> }] }

NoArtifact == [is_dir |-> FALSE, path |-> <<>>, files |-> {}]

EmptyFs == [files |-> {}, dirs |-> {}]

\* The frame of a process that runs no call.
NoFrame ==
    [ op |-> "none", inst |-> 0, target |-> <<>>,
      \* get_cached_model_on_the_hub
      idx |-> 0, cache_repo_id |-> None, cache_revision |-> None, listings |-> <<>>,
      cached_model |-> NoModel,
      uploads_before |-> 0, uploads_after |-> 0, previous |-> NoModel, previous_uploads |-> -1,
      \* download_cached_model_from_hub
      target_argument |-> None, flags |-> "",
      \* get_neuron_cache_path, set_neuron_cache_path
      neuron_cache_path |-> [is_path |-> FALSE, text |-> ""], ignore_no_cache |-> FALSE,
      ret_path |-> <<>>,
      target_directory |-> <<>>, cwd |-> <<>>, keep_tree_structure |-> FALSE,
      downloads |-> 0, downloaded |-> {}, fs_before |-> EmptyFs,
      \* push_to_cache_on_hub
      local |-> NoArtifact, push_repo |-> <<>>, overwrite_existing |-> FALSE,
      exists |-> FALSE, uploads |-> 0,
      \* NeuronHash.compute_hash, step by step
      self |-> <<>>, stage |-> 0, tmpdirname |-> <<>>, model_hash |-> "",
      \* StaticTemporaryDirectory
      dirname |-> <<>>, created |-> FALSE,
      \* get_stable_diffusion_models_for_export
      model_dtypes |-> [text_encoder |-> "", unet |-> "", vae_encoder |-> "", vae_decoder |-> ""],
      model_dtype_groups |-> <<>>, group |-> 0, pipeline |-> None, loads |-> 0,
      models_for_export |-> [text_encoder |-> "", unet |-> "", vae_encoder |-> "", vae_decoder |-> ""],
      \* the outcome
      status |-> "none", ret_model |-> NoModel, ret_bool |-> FALSE, error |-> "" ]

\* Hub calls one process makes.
MaxOps == 2

\* The Hub calls started so far, by all processes.
Started ==
    LET n(p) == Len(history[p]) + (IF pc[p] \in {"idle", "done"} THEN 0 ELSE 1)
    IN n("p1") + n("p2")

\* The uploads committed to the Hub so far, by all processes.
Uploads ==
    LET n(p) == Cardinality({ k \in 1..Len(history[p]) : history[p][k] = "push:uploaded" })
    IN n("p1") + n("p2")

\* Process p is in no call.
CanCall(p) == pc[p] \in {"idle", "done"}

\* The call of process p ends: it returned or raised.
Finish(p, f, outcome) ==
    /\ frame' = [frame EXCEPT ![p] = f]
    /\ pc' = [pc EXCEPT ![p] = "done"]
    /\ history' = [history EXCEPT ![p] = Append(@, outcome)]

-----------------------------------------------------------------------------
(* get_cached_model_on_the_hub *)

\* A scan that takes every file below the cache path for a file of the entry:
\* a test of the prefix where the code tests the parent.
scan_repo_prefix(loc, target_directory, repo_id, revision, repo_filenames) ==
    IF \E repo_filename \in repo_filenames :
            /\ Len(Path(repo_filename)) > Len(target_directory)
            /\ SubSeq(Path(repo_filename), 1, Len(target_directory)) = target_directory
    THEN [loc EXCEPT !.cache_repo_id = repo_id, !.cache_revision = revision]
    ELSE loc

\* One iteration of the loop over HF_HUB_CACHE_REPOS, after the listing of the
\* repository came back: the inner loop over its file names.
scan_repo(loc, target_directory, repo_id, revision, repo_filenames) ==
    IF \E repo_filename \in repo_filenames : parent(Path(repo_filename)) = target_directory
    THEN [loc EXCEPT !.cache_repo_id = repo_id, !.cache_revision = revision]
    ELSE loc

\* The end of get_cached_model_on_the_hub: the value it returns.
found_model(loc) ==
    IF loc.cache_repo_id = None
    THEN NoModel
    ELSE CachedModelOnTheHub(loc.cache_repo_id, loc.target, loc.cache_revision)

\* A download_cached_model_from_hub that answers True whatever the lookup found.
download_result_always(cached_model) == TRUE

\* The value download_cached_model_from_hub returns: cached_model is not None.
download_result(cached_model) == cached_model # NoModel

\* The start of get_cached_model_on_the_hub(neuron_hash) in the frame f.
enter_find(f, p, i) ==
    [f EXCEPT !.target = cache_path(instances[p][i], compute_hash(instances[p][i], _hash[p]).hash),
              !.idx = 1, !.cache_repo_id = None, !.cache_revision = None, !.listings = <<>>,
              !.uploads_before = Uploads,
              !.previous = IF frame[p].op = "find" /\ frame[p].status = "returned"
                           THEN frame[p].ret_model ELSE NoModel,
              !.previous_uploads = IF frame[p].op = "find" /\ frame[p].status = "returned"
                                   THEN frame[p].uploads_before ELSE -1]

\* get_cached_model_on_the_hub(neuron_hash) is called.
CallFind(p, i) ==
    /\ CanCall(p)
    /\ i \in 1..Len(instances[p])
    /\ CallComputeHash(p, i)
    /\ frame' = [frame EXCEPT ![p] =
            enter_find([NoFrame EXCEPT !.op = "find", !.inst = i, !.status = "running"], p, i)]
    /\ pc' = [pc EXCEPT ![p] = "find_list"]
    /\ UNCHANGED <<instances, last_call, HF_HUB_CACHE_REPOS, NEURON_CC_FLAGS, remote, fs, history>>

\* One HfApi().list_repo_files call of the loop and the code up to the next
\* network call: the scan of the listing and, after the last repository, the
\* return of get_cached_model_on_the_hub (to the caller, or to
\* download_cached_model_from_hub, which returns False on a miss).
FindList(p) ==
    /\ pc[p] = "find_list"
    /\ LET f == frame[p]
           entry == HF_HUB_CACHE_REPOS[f.idx]
           repo_id == entry[1]
           revision == IF is_tuple(entry) THEN entry[2] ELSE "main"
           repo_filenames == list_repo_files(remote, repo_id, revision)
           f1 == [scan_repo(f, f.target, repo_id, revision, repo_filenames)
                     EXCEPT !.idx = @ + 1, !.listings = Append(@, repo_filenames)]
           cached_model == found_model(f1)
           f2 == [f1 EXCEPT !.cached_model = cached_model, !.uploads_after = Uploads]
       IN IF f.idx < Len(HF_HUB_CACHE_REPOS)
          THEN /\ frame' = [frame EXCEPT ![p] = f1]
               /\ UNCHANGED <<pc, history>>
          ELSE IF f.op = "find"
          THEN Finish(p, [f2 EXCEPT !.status = "returned", !.ret_model = cached_model],
                      IF cached_model = NoModel THEN "find:miss" ELSE "find:hit")
          ELSE IF cached_model = NoModel
          THEN Finish(p, [f2 EXCEPT !.status = "returned", !.ret_bool = download_result(cached_model)],
                      "download:" \o ToString(download_result(cached_model)))
          ELSE /\ frame' = [frame EXCEPT ![p] = f2]
               /\ pc' = [pc EXCEPT ![p] = "snapshot_download"]
               /\ UNCHANGED history
    /\ UNCHANGED <<hash_vars, HF_HUB_CACHE_REPOS, NEURON_CC_FLAGS, remote, fs>>

-----------------------------------------------------------------------------
(* push_to_cache_on_hub *)

\* The files an upload writes: HF_API.upload_folder puts every file of the
\* folder under path_in_repo, HF_API.upload_file puts the file at
\* target_directory / its name.
uploaded_paths(local, target_directory) ==
    IF local.is_dir
    THEN { as_posix(target_directory) \o "/" \o as_posix(rel) : rel \in local.files }
    ELSE { as_posix(target_directory \o <<name(local.path)>>) }

\* The repository after a commit that writes these paths with this content:
\* a path that exists is replaced, the other files stay.
commit(files, paths, content) ==
    { f \in files : f.path \notin paths } \cup { [path |-> q, content |-> content] : q \in paths }

\* push_to_cache_on_hub(neuron_hash, local_cache_dir_or_file, cache_repo_id,
\* overwrite_existing) is called: the code up to its first network call.
CallPush(p, i, local, cache_repo_id, overwrite_existing) ==
    /\ CanCall(p)
    /\ i \in 1..Len(instances[p])
    /\ CallComputeHash(p, i)
    /\ frame' = [frame EXCEPT ![p] =
            [NoFrame EXCEPT
                !.op = "push", !.inst = i, !.status = "running",
                !.target = cache_path(instances[p][i], _hash'[p]),
                !.local = local,
                !.push_repo = IF cache_repo_id = None THEN HF_HUB_CACHE_REPOS[1] ELSE <<cache_repo_id>>,
                !.overwrite_existing = overwrite_existing]]
    /\ pc' = [pc EXCEPT ![p] = IF overwrite_existing THEN "push_upload" ELSE "push_list"]
    /\ UNCHANGED <<instances, last_call, HF_HUB_CACHE_REPOS, NEURON_CC_FLAGS, remote, fs, history>>

\* The HfApi().list_repo_files call of push_to_cache_on_hub and the test of
\* what it lists. A repo id that is not a text is refused by the client.
PushList(p) ==
    /\ pc[p] = "push_list"
    /\ LET f == frame[p] IN
        IF is_tuple(f.push_repo)
        THEN Finish(p, [f EXCEPT !.status = "raised", !.error = "HFValidationError"],
                    "push:HFValidationError")
        ELSE LET repo_filenames == list_repo_files(remote, f.push_repo[1], "main")
                 exists == \E filename \in repo_filenames : parent(Path(filename)) = f.target
             IN /\ frame' = [frame EXCEPT ![p] = [f EXCEPT !.exists = exists]]
                /\ pc' = [pc EXCEPT ![p] = "push_upload"]
                /\ UNCHANGED history
    /\ UNCHANGED <<hash_vars, HF_HUB_CACHE_REPOS, NEURON_CC_FLAGS, remote, fs>>

\* An upload that waits while another process is about to write the same cache
\* path of the same repository.
PushUploadExclusive(p) ==
    /\ pc[p] = "push_upload"
    /\ \A q \in Procs \ {p} :
            ~ ( /\ pc[q] = "push_upload"
                /\ frame[q].target = frame[p].target
                /\ frame[q].push_repo = frame[p].push_repo )
    /\ LET f == frame[p] IN
        IF is_tuple(f.push_repo)
        THEN /\ Finish(p, [f EXCEPT !.status = "raised", !.error = "HFValidationError"],
                       "push:HFValidationError")
             /\ UNCHANGED remote
        ELSE LET key == <<f.push_repo[1], "main">> IN
             /\ remote' = [remote EXCEPT ![key] = commit(@, uploaded_paths(f.local, f.target), p)]
             /\ Finish(p, [f EXCEPT !.uploads = @ + 1, !.status = "returned",
                                    !.ret_model = CachedModelOnTheHub(f.push_repo[1], f.target, "main")],
                       "push:uploaded")
    /\ UNCHANGED <<hash_vars, HF_HUB_CACHE_REPOS, NEURON_CC_FLAGS, fs>>

\* The HF_API.upload_folder or HF_API.upload_file call of push_to_cache_on_hub,
\* and its return. The content written is the artifact the process compiled.
PushUpload(p) ==
    /\ pc[p] = "push_upload"
    /\ LET f == frame[p] IN
        IF is_tuple(f.push_repo)
        THEN /\ Finish(p, [f EXCEPT !.status = "raised", !.error = "HFValidationError"],
                       "push:HFValidationError")
             /\ UNCHANGED remote
        ELSE LET key == <<f.push_repo[1], "main">> IN
             /\ remote' = [remote EXCEPT ![key] = commit(@, uploaded_paths(f.local, f.target), p)]
             /\ Finish(p, [f EXCEPT !.uploads = @ + 1, !.status = "returned",
                                    !.ret_model = CachedModelOnTheHub(f.push_repo[1], f.target, "main")],
                       "push:uploaded")
    /\ UNCHANGED <<hash_vars, HF_HUB_CACHE_REPOS, NEURON_CC_FLAGS, fs>>

-----------------------------------------------------------------------------
(* download_cached_model_from_hub *)

\* A relative path is relative to the current working directory.
absolute(cwd, path) == IF path # <<>> /\ path[1] = "/" THEN path ELSE cwd \o path

starts_with(path, prefix) ==
    Len(path) >= Len(prefix) /\ SubSeq(path, 1, Len(prefix)) = prefix

\* The directories above a path, the root included.
ancestors(path) == { SubSeq(path, 1, k) : k \in 1..(Len(path) - 1) }

\* The files of a repository that allow_patterns=f"{folder}/**" selects.
allowed(files, folder) ==
    { f.path : f \in { g \in files :
        /\ Len(g.path) > Len(folder)
        /\ SubSeq(g.path, 1, Len(folder) + 1) = folder \o "/" } }

\* snapshot_download(repo_id, revision, local_dir, allow_patterns=f"{folder}/**"):
\* the files of the repository below folder, written below local_dir with
\* their path in the repository.
snapshot_download(local_fs, files, local_dir, folder) ==
    LET wanted == allowed(files, folder)
        written == { local_dir \o Path(q) : q \in wanted }
    IN [ files |-> local_fs.files \cup written,
         dirs  |-> local_fs.dirs \cup {local_dir} \cup ancestors(local_dir)
                       \cup UNION { ancestors(w) : w \in written } ]

\* The tree at src, renamed to dst.
rename_tree(local_fs, src, dst) ==
    LET to(q) == IF starts_with(q, src) THEN dst \o SubSeq(q, Len(src) + 1, Len(q)) ELSE q
    IN [ files |-> { to(q) : q \in local_fs.files }, dirs |-> { to(q) : q \in local_fs.dirs } ]

\* shutil.move(src, dst) of a directory src: into dst when dst is a directory,
\* to dst otherwise. The file system afterwards and the error raised, if any.
shutil_move(local_fs, src, dst) ==
    LET real_dst == IF dst \in local_fs.dirs THEN dst \o <<name(src)>> ELSE dst
    IN IF dst \in local_fs.dirs /\ real_dst \in (local_fs.dirs \cup local_fs.files)
       THEN [fs |-> local_fs, error |-> "shutil.Error"]
       ELSE IF real_dst \in local_fs.files
       THEN [fs |-> local_fs, error |-> "FileExistsError"]
       ELSE IF parent(real_dst) \notin local_fs.dirs
       THEN [fs |-> local_fs, error |-> "FileNotFoundError"]
       ELSE [fs |-> rename_tree(local_fs, src, real_dst), error |-> ""]

\* shutil.rmtree(path)
shutil_rmtree(local_fs, path) ==
    IF path \in local_fs.files
    THEN [fs |-> local_fs, error |-> "NotADirectoryError"]
    ELSE IF path \notin local_fs.dirs
    THEN [fs |-> local_fs, error |-> "FileNotFoundError"]
    ELSE [fs |-> [ files |-> { q \in local_fs.files : ~ starts_with(q, path) },
                   dirs  |-> { q \in local_fs.dirs : ~ starts_with(q, path) } ],
          error |-> ""]

\* The flattening of download_cached_model_from_hub (keep_tree_structure is
\* False): Path(folder).rglob("") yields directories only, the folder itself
\* first when it exists below the current working directory; it is moved to
\* target_directory / its name, after which nothing of it is left to yield;
\* then shutil.rmtree(folder). (No target directory of the model lies inside
\* a cache path, so the move never finds source and destination the same.)
flatten(local_fs, cwd, folder, target_directory) ==
    LET src == absolute(cwd, Path(folder))
        moved == IF src \in local_fs.dirs
                 THEN shutil_move(local_fs, src, absolute(cwd, target_directory \o <<name(src)>>))
                 ELSE [fs |-> local_fs, error |-> ""]
    IN IF moved.error # "" THEN moved ELSE shutil_rmtree(moved.fs, src)

\* The target_directory arguments of the model (None: the default) and the
\* current working directories.
TargetArguments == { None, "/t1" }

WorkingDirectories == { <<"/", "t1">>, <<"/", "w">> }

InitialFs == [ files |-> {}, dirs |-> { <<"/">> } \cup WorkingDirectories ]

\* A resolution that refuses to work while caching is disabled, whatever the
\* target_directory argument.
resolve_target_directory_strict(target_directory, neuron_cc_flags) ==
    IF Contains(neuron_cc_flags, "--no-cache")
    THEN NonePath
    ELSE IF target_directory = None
    THEN get_neuron_cache_path(neuron_cc_flags)
    ELSE Path(target_directory)

\* The first lines of download_cached_model_from_hub: the target directory it
\* works with (NonePath: it raises ValueError), for the target_directory
\* argument and the value of NEURON_CC_FLAGS.
resolve_target_directory(target_directory, neuron_cc_flags) ==
    IF target_directory = None
    THEN get_neuron_cache_path(neuron_cc_flags)
    ELSE Path(target_directory)

\* A download that leaves a trace of itself on the Hub: a marker file in the
\* repository it downloaded from.
SnapshotDownloadCounting(p) ==
    /\ pc[p] = "snapshot_download"
    /\ LET f == frame[p]
           cached_model == f.cached_model
           key == <<cached_model.repo_id, cached_model.revision>>
           got == snapshot_download(fs[p], remote[key], absolute(f.cwd, f.target_directory),
                                    cached_model.folder)
       IN /\ fs' = [fs EXCEPT ![p] = got]
          /\ remote' = [remote EXCEPT ![key] = commit(@, {".downloaded"}, p)]
          /\ Finish(p, [f EXCEPT !.downloads = @ + 1, !.status = "returned", !.ret_bool = TRUE],
                    "download:TRUE")
    /\ UNCHANGED <<hash_vars, HF_HUB_CACHE_REPOS, NEURON_CC_FLAGS>>

\* download_cached_model_from_hub(neuron_hash, target_directory,
\* keep_tree_structure) is called in the working directory cwd: the code up to
\* its first network call.
CallDownload(p, i, target_directory, cwd, keep_tree_structure) ==
    /\ CanCall(p)
    /\ i \in 1..Len(instances[p])
    /\ LET resolved == resolve_target_directory(target_directory, NEURON_CC_FLAGS[p])
           f == [NoFrame EXCEPT
                    !.op = "download", !.inst = i, !.status = "running",
                    !.target_argument = target_directory, !.flags = NEURON_CC_FLAGS[p],
                    !.target_directory = resolved, !.cwd = cwd,
                    !.keep_tree_structure = keep_tree_structure,
                    !.fs_before = fs[p]]
       IN IF resolved = NonePath
          THEN /\ Finish(p, [f EXCEPT !.status = "raised", !.error = "ValueError"],
                         "download:ValueError")
               /\ UNCHANGED <<_hash, hash_runs, returned>>
          ELSE /\ CallComputeHash(p, i)
               /\ frame' = [frame EXCEPT ![p] = enter_find(f, p, i)]
               /\ pc' = [pc EXCEPT ![p] = "find_list"]
               /\ UNCHANGED history
    /\ UNCHANGED <<instances, last_call, HF_HUB_CACHE_REPOS, NEURON_CC_FLAGS, remote, fs>>

\* The snapshot_download call of download_cached_model_from_hub and the code
\* after it: the flattening, and the return.
SnapshotDownload(p) ==
    /\ pc[p] = "snapshot_download"
    /\ LET f == frame[p]
           cached_model == f.cached_model
           folder == cached_model.folder
           got == snapshot_download(fs[p], remote[<<cached_model.repo_id, cached_model.revision>>],
                                    absolute(f.cwd, f.target_directory), folder)
           flat == IF f.keep_tree_structure
                   THEN [fs |-> got, error |-> ""]
                   ELSE flatten(got, f.cwd, folder, f.target_directory)
           f1 == [f EXCEPT !.downloads = @ + 1,
                           !.downloaded = allowed(remote[<<cached_model.repo_id, cached_model.revision>>], folder)]
       IN /\ fs' = [fs EXCEPT ![p] = flat.fs]
          /\ IF flat.error = ""
             THEN Finish(p, [f1 EXCEPT !.status = "returned", !.ret_bool = download_result(cached_model)],
                         "download:" \o ToString(download_result(cached_model)))
             ELSE Finish(p, [f1 EXCEPT !.status = "raised", !.error = flat.error],
                         "download:" \o flat.error)
    /\ UNCHANGED <<hash_vars, HF_HUB_CACHE_REPOS, NEURON_CC_FLAGS, remote>>

-----------------------------------------------------------------------------
(* Specifications *)

\* The Hub side at rest: what the specification of NeuronHash leaves alone.
HubIdle ==
    /\ HF_HUB_CACHE_REPOS = << <<"r1">> >>
    /\ NEURON_CC_FLAGS = [p \in Procs |-> ""]
    /\ remote = [k \in RemoteKeys |-> {}]
    /\ fs = [p \in Procs |-> InitialFs]
    /\ pc = [p \in Procs |-> "idle"]
    /\ frame = [p \in Procs |-> NoFrame]
    /\ history = [p \in Procs |-> <<>>]

\* A cache entry put on the Hub by somebody else, for the base fingerprint.
SeedFiles ==
    { [ path |-> as_posix(cache_path(BaseFingerprint, hashing_work(BaseFingerprint, EmptyHash)))
                    \o "/model.neff",
        content |-> "seed" ] }

\* The values of NEURON_CC_FLAGS the processes start with.
FlagChoices == { "", "--no-cache", "--cache_dir=/c" }

\* The processes after each constructed its NeuronHash: the first one for the
\* base fingerprint, the second one for the same or for other weights.
HubInit ==
    /\ \E f2 \in { f \in Fingerprints : DifferingFields(f, BaseFingerprint) \subseteq {"model"} } :
        LET fp == [p \in Procs |-> IF p = "p1" THEN BaseFingerprint ELSE f2] IN
        /\ instances = [p \in Procs |-> <<fp[p]>>]
        /\ _hash = [p \in Procs |-> compute_hash(fp[p], EmptyHash).hash]
        /\ returned = [p \in Procs |-> <<compute_hash(fp[p], EmptyHash).hash>>]
        /\ hash_runs = [p \in Procs |-> <<compute_hash(fp[p], EmptyHash).ran>>]
    /\ last_call = [p \in Procs |-> [op |-> "__post_init__", inst |-> 1, value |-> <<>>]]
    /\ HF_HUB_CACHE_REPOS \in RepoLists
    /\ \E flags \in FlagChoices : NEURON_CC_FLAGS = [p \in Procs |-> flags]
    /\ \E seeded \in SUBSET { <<"r1", "main">>, <<"r2", "dev">> } :
        remote = [k \in RemoteKeys |-> IF k \in seeded THEN SeedFiles ELSE {}]
    /\ fs = [p \in Procs |-> InitialFs]
    /\ pc = [p \in Procs |-> "idle"]
    /\ frame = [p \in Procs |-> NoFrame]
    /\ history = [p \in Procs |-> <<>>]

HubNext ==
    \E p \in Procs :
        \/ Started < MaxOps /\ CallFind(p, 1)
        \/ FindList(p)
        \/ /\ Started < MaxOps
           /\ \E local \in LocalArtifacts, repo \in {None, "r2"}, overwrite \in BOOLEAN :
                CallPush(p, 1, local, repo, overwrite)
        \/ PushList(p)
        \/ PushUpload(p)
        \/ /\ Started < MaxOps
           /\ \E target \in TargetArguments, cwd \in WorkingDirectories, keep \in BOOLEAN :
                CallDownload(p, 1, target, cwd, keep)
        \/ SnapshotDownload(p)

SpecHub == HubInit /\ [][HubNext]_vars

\* Every process runs the caller's sequence for its fingerprint: look the entry
\* up, and on a miss compile and publish the result to the default repository,
\* without overwrite_existing.
RaceNext ==
    \E p \in Procs :
        \/ history[p] = <<>> /\ CallFind(p, 1)
        \/ FindList(p)
        \/ /\ history[p] = <<"find:miss">>
           /\ \E local \in LocalArtifacts : CallPush(p, 1, local, None, FALSE)
        \/ PushList(p)
        \/ PushUpload(p)

SpecRace == HubInit /\ [][RaceNext]_vars

\* No instance constructed, no Hub call made.
InitHash == HashInit /\ HubIdle

-----------------------------------------------------------------------------
(* The cache path configuration on its own *)

\* get_neuron_cache_path() is called by process p.
GetNeuronCachePath(p) ==
    /\ CanCall(p)
    /\ Finish(p, [NoFrame EXCEPT !.op = "get_neuron_cache_path", !.status = "returned",
                                 !.flags = NEURON_CC_FLAGS[p],
                                 !.ret_path = get_neuron_cache_path(NEURON_CC_FLAGS[p])],
              "get")
    /\ UNCHANGED <<hash_vars, HF_HUB_CACHE_REPOS, NEURON_CC_FLAGS, remote, fs>>

\* set_neuron_cache_path(neuron_cache_path, ignore_no_cache) is called by
\* process p.
SetNeuronCachePath(p, neuron_cache_path, ignore_no_cache) ==
    /\ CanCall(p)
    /\ LET r == set_neuron_cache_path(NEURON_CC_FLAGS[p], neuron_cache_path, ignore_no_cache)
           f == [NoFrame EXCEPT !.op = "set_neuron_cache_path",
                                !.flags = NEURON_CC_FLAGS[p],
                                !.neuron_cache_path = neuron_cache_path,
                                !.ignore_no_cache = ignore_no_cache]
       IN /\ NEURON_CC_FLAGS' = [NEURON_CC_FLAGS EXCEPT ![p] = r.flags]
          /\ IF r.error = ""
             THEN Finish(p, [f EXCEPT !.status = "returned"],
                         "set:" \o posix_argument(neuron_cache_path))
             ELSE Finish(p, [f EXCEPT !.status = "raised", !.error = r.error], "raised:" \o r.error)
    /\ UNCHANGED <<hash_vars, HF_HUB_CACHE_REPOS, remote, fs>>

\* The values NEURON_CC_FLAGS has when the process starts.
InitialFlags ==
    { "",
      "-O1",
      "--no-cache",
      "--cache_dir=/a",
      "-O1 --cache_dir=/a/b --verbose",
      "--cache_dir=/a --no-cache",
      "--no-cache -O1 --cache_dir=/a",
      "--cache_dir=/my-cache -O1",
      "--cache_dir=/a --cache_dir=/b" }

\* The neuron_cache_path arguments of the calls.
CachePathArguments ==
    { [is_path |-> FALSE, text |-> "/c"],
      [is_path |-> FALSE, text |-> "/my-cache"],
      [is_path |-> TRUE,  text |-> "/d/e/"] }

\* Calls of get_neuron_cache_path and set_neuron_cache_path, by all processes.
MaxFlagCalls == 3

FlagsInit ==
    /\ HashInit
    /\ HF_HUB_CACHE_REPOS = << <<"r1">> >>
    /\ NEURON_CC_FLAGS \in [Procs -> InitialFlags]
    /\ remote = [k \in RemoteKeys |-> {}]
    /\ fs = [p \in Procs |-> InitialFs]
    /\ pc = [p \in Procs |-> "idle"]
    /\ frame = [p \in Procs |-> NoFrame]
    /\ history = [p \in Procs |-> <<>>]

FlagsNext ==
    \/ \E p \in Procs : Started < MaxFlagCalls /\ GetNeuronCachePath(p)
    \/ \E p \in Procs, path \in CachePathArguments, ignore \in BOOLEAN :
            Started < MaxFlagCalls /\ SetNeuronCachePath(p, path, ignore)

SpecFlags == FlagsInit /\ [][FlagsNext]_vars

-----------------------------------------------------------------------------
(* Lookups, downloads and uploads in longer sequences *)

\* Hub calls of the longer sequences, by all processes.
MaxSyncOps == 3

\* Both processes hold the base fingerprint; the default repository comes
\* first in HF_HUB_CACHE_REPOS; the entry may be in either repository.
SyncInit ==
    /\ instances = [p \in Procs |-> <<BaseFingerprint>>]
    /\ _hash = [p \in Procs |-> compute_hash(BaseFingerprint, EmptyHash).hash]
    /\ returned = [p \in Procs |-> <<compute_hash(BaseFingerprint, EmptyHash).hash>>]
    /\ hash_runs = [p \in Procs |-> <<compute_hash(BaseFingerprint, EmptyHash).ran>>]
    /\ last_call = [p \in Procs |-> [op |-> "__post_init__", inst |-> 1, value |-> <<>>]]
    /\ HF_HUB_CACHE_REPOS \in { << <<"r1">> >>, << <<"r1">>, <<"r2", "dev">> >> }
    /\ NEURON_CC_FLAGS = [p \in Procs |-> ""]
    /\ \E seeded \in SUBSET { <<"r1", "main">>, <<"r2", "dev">> } :
        remote = [k \in RemoteKeys |-> IF k \in seeded THEN SeedFiles ELSE {}]
    /\ fs = [p \in Procs |-> InitialFs]
    /\ pc = [p \in Procs |-> "idle"]
    /\ frame = [p \in Procs |-> NoFrame]
    /\ history = [p \in Procs |-> <<>>]

\* Lookups, downloads that keep the tree, and uploads of a file or a directory
\* to the default repository.
SyncNext ==
    \E p \in Procs :
        \/ Started < MaxSyncOps /\ CallFind(p, 1)
        \/ FindList(p)
        \/ /\ Started < MaxSyncOps
           /\ \E local \in LocalArtifacts, overwrite \in BOOLEAN : CallPush(p, 1, local, None, overwrite)
        \/ PushList(p)
        \/ PushUpload(p)
        \/ Started < MaxSyncOps /\ CallDownload(p, 1, "/t1", <<"/", "w">>, TRUE)
        \/ SnapshotDownload(p)

SpecSync == SyncInit /\ [][SyncNext]_vars

-----------------------------------------------------------------------------
(* optimum/exporters/neuron/utils.py: the components of a Stable Diffusion
   pipeline for export *)

\* DIFFUSION_MODEL_TEXT_ENCODER_NAME, DIFFUSION_MODEL_UNET_NAME,
\* DIFFUSION_MODEL_VAE_ENCODER_NAME, DIFFUSION_MODEL_VAE_DECODER_NAME
ComponentNames == {"text_encoder", "unet", "vae_encoder", "vae_decoder"}

Dtypes == {"float32", "bfloat16", "float16"}

\* The model_dtypes arguments: a dtype for each component.
ModelDtypes == [ComponentNames -> Dtypes]

\* A local name after "del": bound to nothing.
Unbound == "<unbound>"

\* The orders in which model_dtype_groups.items() can yield the dtypes of
\* model_dtypes: the order of a set, with float32 put first when present.
group_orders(model_dtypes) ==
    LET used == { model_dtypes[n] : n \in ComponentNames }
    IN { order \in SeqsUpTo(used, Cardinality(used)) :
            /\ Len(order) = Cardinality(used)
            /\ \A a, b \in 1..Len(order) : a # b => order[a] # order[b]
            /\ "float32" \in used => order[1] = "float32" }

\* get_stable_diffusion_models_for_export(pipeline, model_kwargs, ...,
\* model_dtypes) is called with a float32 pipeline: the code of
\* _get_submodels_for_export_stable_diffusion up to its loop.
CallExport(p, model_dtypes) ==
    /\ CanCall(p)
    /\ \E order \in group_orders(model_dtypes) :
        frame' = [frame EXCEPT ![p] =
            [NoFrame EXCEPT !.op = "export", !.status = "running",
                            !.model_dtypes = model_dtypes,
                            !.model_dtype_groups = order, !.group = 1,
                            !.pipeline = IF "float32" \in { model_dtypes[n] : n \in ComponentNames }
                                         THEN "float32" ELSE None]]
    /\ pc' = [pc EXCEPT ![p] = "export_group"]
    /\ UNCHANGED <<hash_vars, HF_HUB_CACHE_REPOS, NEURON_CC_FLAGS, remote, fs, history>>

\* One iteration of the loop over model_dtype_groups: the pipeline is loaded
\* when the name is None, the components of the group are taken from it, and
\* the name is deleted. After the last group the function returns, and
\* get_stable_diffusion_models_for_export pairs every component with its
\* neuron config.
ExportGroup(p) ==
    /\ pc[p] = "export_group"
    /\ LET f == frame[p]
           model_dtype == f.model_dtype_groups[f.group]
           model_names == { n \in ComponentNames : f.model_dtypes[n] = model_dtype }
           pipeline == IF f.pipeline = None THEN model_dtype ELSE f.pipeline
           f1 == [f EXCEPT !.models_for_export =
                                [n \in ComponentNames |-> IF n \in model_names THEN pipeline ELSE @[n]],
                           !.loads = IF f.pipeline = None THEN @ + 1 ELSE @,
                           !.pipeline = Unbound,
                           !.group = @ + 1]
       IN IF f.pipeline = Unbound
          THEN Finish(p, [f EXCEPT !.status = "raised", !.error = "UnboundLocalError"],
                      "export:UnboundLocalError")
          ELSE IF f.group < Len(f.model_dtype_groups)
          THEN /\ frame' = [frame EXCEPT ![p] = f1]
               /\ UNCHANGED <<pc, history>>
          ELSE Finish(p, [f1 EXCEPT !.status = "returned"], "export:returned")
    /\ UNCHANGED <<hash_vars, HF_HUB_CACHE_REPOS, NEURON_CC_FLAGS, remote, fs>>

\* Calls of get_stable_diffusion_models_for_export, by all processes.
MaxExportCalls == 1

ExportNext ==
    \/ \E p \in Procs, model_dtypes \in ModelDtypes :
            Started < MaxExportCalls /\ CallExport(p, model_dtypes)
    \/ \E p \in Procs : ExportGroup(p)

SpecExport == InitHash /\ [][ExportNext]_vars


-----------------------------------------------------------------------------
(* NeuronHash.compute_hash step by step: its temporary directories *)

HASH_FILE_NAME == "pytorch_model.bin"

\* The names tempfile can give a new directory, below /tmp.
TempNames == {"tmpa", "tmpb"}

TempRoot == <<"/", "tmp">>

\* The temporary directories that exist in a file system.
TempDirs(local_fs) == { d \in local_fs.dirs : Len(d) = 3 /\ SubSeq(d, 1, 2) = TempRoot }

\* A TemporaryDirectory that cleans up only when its with-block ends normally.
TemporaryDirectory_exit_unless_raised(local_fs, tmpdirname, raised) ==
    IF raised THEN local_fs ELSE shutil_rmtree(local_fs, tmpdirname).fs

\* tempfile.TemporaryDirectory.__exit__: the directory and what it holds are
\* removed, whether the with-block ended normally or raised.
TemporaryDirectory_exit(local_fs, tmpdirname, raised) ==
    shutil_rmtree(local_fs, tmpdirname).fs

\* The object a stage of compute_hash serialises.
stage_object(f, h) ==
    IF f.stage = 1 THEN f.self.model.state_dict ELSE hash_dict(f.self, h)

\* NeuronHash(...) is called by process p with the fields of fingerprint:
\* __post_init__ calls compute_hash, which returns at once when self._hash is
\* filled, and starts its first stage otherwise.
CallConstruct(p, fingerprint) ==
    /\ CanCall(p)
    /\ Len(instances[p]) < MaxInstances
    /\ LET f == [NoFrame EXCEPT !.op = "construct", !.status = "running",
                                !.self = fingerprint, !.fs_before = fs[p]]
       IN IF is_empty(_hash[p])
          THEN /\ frame' = [frame EXCEPT ![p] = [f EXCEPT !.stage = 1]]
               /\ pc' = [pc EXCEPT ![p] = "hash_mkdtemp"]
               /\ UNCHANGED <<history, instances, returned, hash_runs, last_call>>
          ELSE /\ Finish(p, [f EXCEPT !.status = "returned"], "construct:returned")
               /\ instances' = [instances EXCEPT ![p] = Append(@, fingerprint)]
               /\ returned' = [returned EXCEPT ![p] = Append(@, _hash[p])]
               /\ hash_runs' = [hash_runs EXCEPT ![p] = Append(@, 0)]
               /\ last_call' = [last_call EXCEPT ![p] =
                        [op |-> "__post_init__", inst |-> Len(instances[p]) + 1, value |-> <<>>]]
    /\ UNCHANGED <<_hash, HF_HUB_CACHE_REPOS, NEURON_CC_FLAGS, remote, fs>>

\* "with tempfile.TemporaryDirectory() as tmpdirname": a new directory.
HashMkdtemp(p) ==
    /\ pc[p] = "hash_mkdtemp"
    /\ \E n \in TempNames :
        LET tmpdirname == TempRoot \o <<n>> IN
        /\ tmpdirname \notin fs[p].dirs
        /\ fs' = [fs EXCEPT ![p].dirs = @ \cup {tmpdirname}]
        /\ frame' = [frame EXCEPT ![p].tmpdirname = tmpdirname]
    /\ pc' = [pc EXCEPT ![p] = "hash_save"]
    /\ UNCHANGED <<hash_vars, HF_HUB_CACHE_REPOS, NEURON_CC_FLAGS, remote, history>>

\* xm.save(obj, filename): it writes the file, or it raises after it wrote
\* some of it; the exception leaves the with-block and compute_hash.
HashSave(p) ==
    /\ pc[p] = "hash_save"
    /\ LET f == frame[p]
           filename == f.tmpdirname \o <<HASH_FILE_NAME>>
           written == [fs[p] EXCEPT !.files = @ \cup {filename}]
       IN \E raised \in BOOLEAN :
            IF raised
            THEN /\ fs' = [fs EXCEPT ![p] = TemporaryDirectory_exit(written, f.tmpdirname, TRUE)]
                 /\ Finish(p, [f EXCEPT !.status = "raised", !.error = "SerializationError"],
                           f.op \o ":raised")
            ELSE /\ fs' = [fs EXCEPT ![p] = written]
                 /\ pc' = [pc EXCEPT ![p] = "hash_file"]
                 /\ UNCHANGED <<frame, history>>
    /\ UNCHANGED <<hash_vars, HF_HUB_CACHE_REPOS, NEURON_CC_FLAGS, remote>>

\* compute_file_sha256_hash(filename) and the end of the with-block: after
\* the first stage the second one follows; after the second one the pair is
\* stored in self._hash and compute_hash returns. Reading the file may raise.
HashFile(p) ==
    /\ pc[p] = "hash_file"
    /\ LET f == frame[p]
           digest == compute_file_sha256_hash(xm_save(stage_object(f, _hash[p])))
       IN \E raised \in BOOLEAN :
            /\ fs' = [fs EXCEPT ![p] = TemporaryDirectory_exit(fs[p], f.tmpdirname, raised)]
            /\ IF raised
               THEN /\ Finish(p, [f EXCEPT !.status = "raised", !.error = "OSError"], f.op \o ":raised")
                    /\ UNCHANGED hash_vars
               ELSE IF f.stage = 1
               THEN /\ frame' = [frame EXCEPT ![p] = [f EXCEPT !.stage = 2, !.model_hash = digest]]
                    /\ pc' = [pc EXCEPT ![p] = "hash_mkdtemp"]
                    /\ UNCHANGED <<hash_vars, history>>
               ELSE LET h == [model_hash |-> f.model_hash, overall_hash |-> digest] IN
                    /\ _hash' = [_hash EXCEPT ![p] = h]
                    /\ instances' = [instances EXCEPT ![p] = Append(@, f.self)]
                    /\ returned' = [returned EXCEPT ![p] = Append(@, h)]
                    /\ hash_runs' = [hash_runs EXCEPT ![p] = Append(@, 1)]
                    /\ last_call' = [last_call EXCEPT ![p] =
                            [op |-> "__post_init__", inst |-> Len(instances[p]) + 1, value |-> <<>>]]
                    /\ Finish(p, [f EXCEPT !.status = "returned"], f.op \o ":returned")
    /\ UNCHANGED <<HF_HUB_CACHE_REPOS, NEURON_CC_FLAGS, remote>>

\* Constructions of a NeuronHash, by all processes.
MaxConstructions == 3

\* No instance yet; /tmp exists.
TempInit ==
    /\ HashInit
    /\ HF_HUB_CACHE_REPOS = << <<"r1">> >>
    /\ NEURON_CC_FLAGS = [p \in Procs |-> ""]
    /\ remote = [k \in RemoteKeys |-> {}]
    /\ fs = [p \in Procs |-> [InitialFs EXCEPT !.dirs = @ \cup {TempRoot}]]
    /\ pc = [p \in Procs |-> "idle"]
    /\ frame = [p \in Procs |-> NoFrame]
    /\ history = [p \in Procs |-> <<>>]

TempNext ==
    \/ \E p \in Procs, f \in Fingerprints : Started < MaxConstructions /\ CallConstruct(p, f)
    \/ \E p \in Procs : HashMkdtemp(p)
    \/ \E p \in Procs : HashSave(p)
    \/ \E p \in Procs : HashFile(p)

SpecTemp == TempInit /\ [][TempNext]_vars

-----------------------------------------------------------------------------
(* StaticTemporaryDirectory *)

\* Path.exists()
exists(local_fs, path) == path \in local_fs.dirs \/ path \in local_fs.files

\* A mkdir that takes an existing directory for its own (exist_ok=True).
mkdir_parents_exist_ok(local_fs, path) ==
    IF path \in local_fs.files
    THEN [fs |-> local_fs, error |-> "FileExistsError"]
    ELSE [fs |-> [local_fs EXCEPT !.dirs = @ \cup {path} \cup ancestors(path)], error |-> ""]

\* Path.mkdir(parents=True): the directory and its missing parents are made;
\* FileExistsError when the path exists.
mkdir_parents(local_fs, path) ==
    IF exists(local_fs, path)
    THEN [fs |-> local_fs, error |-> "FileExistsError"]
    ELSE [fs |-> [local_fs EXCEPT !.dirs = @ \cup {path} \cup ancestors(path)], error |-> ""]

\* The dirname arguments, and the directories another party makes.
StaticDirNames == { <<"/", "w", "std">>, <<"/", "w", "a">>, <<"/", "w", "a", "std">> }

\* StaticTemporaryDirectory(dirname) is constructed by process p.
StaticConstruct(p, dirname) ==
    /\ CanCall(p)
    /\ LET f == [NoFrame EXCEPT !.op = "static_tmp", !.status = "running", !.dirname = dirname,
                                !.fs_before = fs[p]]
       IN IF exists(fs[p], dirname)
          THEN Finish(p, [f EXCEPT !.status = "raised", !.error = "FileExistsError"],
                      "static_tmp:FileExistsError")
          ELSE /\ frame' = [frame EXCEPT ![p] = f]
               /\ pc' = [pc EXCEPT ![p] = "static_enter"]
               /\ UNCHANGED history
    /\ UNCHANGED <<hash_vars, HF_HUB_CACHE_REPOS, NEURON_CC_FLAGS, remote, fs>>

\* __enter__, at the start of the with statement. When it raises, the with
\* statement is left without a call of __exit__.
StaticEnter(p) ==
    /\ pc[p] = "static_enter"
    /\ LET f == frame[p]
           made == mkdir_parents(fs[p], f.dirname)
       IN /\ fs' = [fs EXCEPT ![p] = made.fs]
          /\ IF made.error # ""
             THEN Finish(p, [f EXCEPT !.status = "raised", !.error = made.error],
                         "static_tmp:" \o made.error)
             ELSE /\ frame' = [frame EXCEPT ![p] = [f EXCEPT !.created = f.dirname \notin fs[p].dirs]]
                  /\ pc' = [pc EXCEPT ![p] = "static_body"]
                  /\ UNCHANGED history
    /\ UNCHANGED <<hash_vars, HF_HUB_CACHE_REPOS, NEURON_CC_FLAGS, remote>>

\* The body of the with statement writes a file into the directory.
StaticBody(p) ==
    /\ pc[p] = "static_body"
    /\ (frame[p].dirname \o <<"work">>) \notin fs[p].files
    /\ fs' = [fs EXCEPT ![p].files = @ \cup { frame[p].dirname \o <<"work">> }]
    /\ UNCHANGED <<hash_vars, HF_HUB_CACHE_REPOS, NEURON_CC_FLAGS, remote, pc, frame, history>>

\* The body ends, normally or with an exception, and __exit__ runs:
\* shutil.rmtree(self.dirname). __exit__ returns None, so an exception of the
\* body goes on to the caller.
StaticExit(p) ==
    /\ pc[p] = "static_body"
    /\ LET f == frame[p]
           removed == shutil_rmtree(fs[p], f.dirname)
       IN /\ fs' = [fs EXCEPT ![p] = removed.fs]
          /\ \E body_raised \in BOOLEAN :
                IF removed.error # ""
                THEN Finish(p, [f EXCEPT !.status = "raised", !.error = removed.error],
                            "static_tmp:" \o removed.error)
                ELSE IF body_raised
                THEN Finish(p, [f EXCEPT !.status = "raised", !.error = "BodyError"],
                            "static_tmp:BodyError")
                ELSE Finish(p, [f EXCEPT !.status = "returned"], "static_tmp:returned")
    /\ UNCHANGED <<hash_vars, HF_HUB_CACHE_REPOS, NEURON_CC_FLAGS, remote>>

\* Another party makes a directory in the file system of process p, and puts
\* a file into it.
OtherMkdir(p, dirname) ==
    /\ ~ exists(fs[p], dirname)
    /\ fs' = [fs EXCEPT ![p] =
            [ files |-> fs[p].files \cup { dirname \o <<"other">> },
              dirs  |-> fs[p].dirs \cup {dirname} \cup ancestors(dirname) ]]
    /\ UNCHANGED <<hash_vars, HF_HUB_CACHE_REPOS, NEURON_CC_FLAGS, remote, pc, frame, history>>

\* StaticTemporaryDirectory objects made, by all processes.
MaxStaticDirs == 2

StaticNext ==
    \/ \E p \in Procs, dirname \in StaticDirNames :
            Started < MaxStaticDirs /\ StaticConstruct(p, dirname)
    \/ \E p \in Procs : StaticEnter(p)
    \/ \E p \in Procs : StaticBody(p)
    \/ \E p \in Procs : StaticExit(p)
    \/ \E p \in Procs, dirname \in StaticDirNames : OtherMkdir(p, dirname)

SpecStatic == InitHash /\ [][StaticNext]_vars

SpecHash == InitHash /\ [][HashNext]_vars

Spec == SpecHub

-----------------------------------------------------------------------------
(* Properties *)

\* The instances of a process.
Inst(p) == 1..Len(instances[p])

\* C1: two NeuronHash fingerprints built in one process that differ in a
\* field have different overall_hash values.
C1_DifferentFieldsDifferentOverallHash ==
    \A p \in Procs : \A i, j \in Inst(p) :
        instances[p][i] # instances[p][j]
            => returned[p][i].overall_hash # returned[p][j].overall_hash

\* C5: model_hash depends on the weights only: fingerprints of one process with
\* the same weights have the same model_hash, fingerprints with different
\* weights have different ones.
C5_ModelHashOfWeightsOnly ==
    \A p \in Procs : \A i, j \in Inst(p) :
        (instances[p][i].model.state_dict = instances[p][j].model.state_dict)
            <=> (returned[p][i].model_hash = returned[p][j].model_hash)

\* C6: equal (weights, input_shapes, data_type, num_neuron_cores,
\* neuron_compiler_version) tuples give the same (model_hash, overall_hash)
\* pair, whichever fingerprints the process that computes it built before.
C6_EqualInputsEqualHashes ==
    \A p, q \in Procs : \A i \in Inst(p), j \in Inst(q) :
        instances[p][i] = instances[q][j] => returned[p][i] = returned[q][j]

\* C7: over the life of a NeuronHash instance the two-stage hashing work runs
\* at most once, and the memoized pair, once set, never changes.
C7_HashedOnceAndKept ==
    /\ [](\A p \in Procs : \A i \in Inst(p) : hash_runs[p][i] <= 1)
    /\ [][\A p \in Procs : ~ is_empty(_hash[p]) => _hash'[p] = _hash[p]]_vars

\* An instance whose hash was computed at construction is asked for it again,
\* by compute_hash(), folders or cache_path.
C7_Witness ==
    \E p \in Procs :
        /\ last_call[p].op \in {"compute_hash", "folders", "cache_path"}
        /\ hash_runs[p][last_call[p].inst] = 1
        /\ returned[p][last_call[p].inst] = _hash[p]
        /\ ~ is_empty(_hash[p])

\* The path q of a repository file lies directly in the directory whose posix
\* path is folder: folder, "/", and a name without "/".
DirectlyIn(q, folder) ==
    /\ Len(q) > Len(folder) + 1
    /\ SubSeq(q, 1, Len(folder) + 1) = folder \o "/"
    /\ \A k \in (Len(folder) + 2)..Len(q) : SubSeq(q, k, k) # "/"

\* The entries of HF_HUB_CACHE_REPOS whose listing, as the finished lookup of
\* process p got it, held a file directly in the cache path.
Matching(p) ==
    { k \in 1..Len(frame[p].listings) :
        \E q \in frame[p].listings[k] : DirectlyIn(q, as_posix(frame[p].target)) }

EntryRepo(k) == HF_HUB_CACHE_REPOS[k][1]

EntryRevision(k) ==
    IF Len(HF_HUB_CACHE_REPOS[k]) = 2 THEN HF_HUB_CACHE_REPOS[k][2] ELSE "main"

FindDone(p) == pc[p] = "done" /\ frame[p].op = "find" /\ frame[p].status = "returned"

\* C2: push_to_cache_on_hub without overwrite_existing, finding the cache path
\* populated in the target repository, uploads nothing and still returns the
\* record of the destination.
C2_ExistingEntryNotUploaded ==
    \A p \in Procs :
        ( /\ pc[p] = "done"
          /\ frame[p].op = "push"
          /\ ~ frame[p].overwrite_existing
          /\ frame[p].exists )
        => /\ frame[p].uploads = 0
           /\ frame[p].status = "returned"
           /\ frame[p].ret_model =
                CachedModelOnTheHub(frame[p].push_repo[1], frame[p].target, "main")

\* C3: when two or more repositories of HF_HUB_CACHE_REPOS hold the entry,
\* get_cached_model_on_the_hub returns the first of them, in list order.
C3_FirstMatchWins ==
    \A p \in Procs :
        (FindDone(p) /\ Cardinality(Matching(p)) >= 2)
        => LET first == CHOOSE k \in Matching(p) : \A m \in Matching(p) : k <= m
           IN /\ frame[p].ret_model.repo_id = EntryRepo(first)
              /\ frame[p].ret_model.revision = EntryRevision(first)

\* Two processes that looked the same fingerprint up in the same repository,
\* both missed, and both stand before their upload.
BothBeforeUpload(p, q) ==
    /\ p # q
    /\ history[p] = <<"find:miss">> /\ history[q] = <<"find:miss">>
    /\ pc[p] = "push_upload" /\ pc[q] = "push_upload"
    /\ frame[p].target = frame[q].target
    /\ frame[p].push_repo = frame[q].push_repo

\* C4: nothing excludes two processes that both missed the same fingerprint
\* from publishing it: when both stand before their upload, each upload can
\* go ahead.
C4_NoMutualExclusion ==
    \A p, q \in Procs :
        BothBeforeUpload(p, q) => (ENABLED PushUpload(p)) /\ (ENABLED PushUpload(q))

\* Both processes missed, and both wrote under the same cache path of the same
\* repository.
C4_Witness ==
    \E p, q \in Procs :
        /\ p # q
        /\ history[p] = <<"find:miss", "push:uploaded">>
        /\ history[q] = <<"find:miss", "push:uploaded">>
        /\ frame[p].target = frame[q].target
        /\ frame[p].push_repo = frame[q].push_repo
        /\ frame[p].uploads = 1 /\ frame[q].uploads = 1
        /\ ~ frame[p].exists /\ ~ frame[q].exists

\* C8: get_cached_model_on_the_hub returns None exactly when no repository of
\* HF_HUB_CACHE_REPOS listed, at its revision, a file whose parent is the cache
\* path; otherwise a record with that cache path as folder, and the id and
\* the revision of a repository that listed one.
C8_FindResult ==
    \A p \in Procs :
        FindDone(p)
        => IF Matching(p) = {}
           THEN frame[p].ret_model = NoModel
           ELSE /\ frame[p].ret_model # NoModel
                /\ frame[p].ret_model.folder = as_posix(frame[p].target)
                /\ \E k \in Matching(p) :
                      /\ frame[p].ret_model.repo_id = EntryRepo(k)
                      /\ frame[p].ret_model.revision = EntryRevision(k)

\* A lookup found the entry in a repository listed with a revision of its own,
\* while another repository of the list held files but none of the entry.
C8_Witness ==
    \E p \in Procs :
        /\ FindDone(p)
        /\ frame[p].ret_model # NoModel
        /\ frame[p].ret_model.revision = "dev"
        /\ \E k \in 1..Len(frame[p].listings) :
              k \notin Matching(p) /\ frame[p].listings[k] # {}

DownloadDone(p) == pc[p] = "done" /\ frame[p].op = "download"

\* The download of process p got through its lookup, which found nothing.
DownloadMissed(p) ==
    /\ DownloadDone(p)
    /\ Len(frame[p].listings) = Len(HF_HUB_CACHE_REPOS)
    /\ frame[p].cached_model = NoModel

C10_DownloadFlattened ==
    \A p \in Procs :
        ( /\ DownloadDone(p)
          /\ frame[p].downloads = 1
          /\ ~ frame[p].keep_tree_structure )
        => LET target_directory == absolute(frame[p].cwd, frame[p].target_directory)
           IN /\ \A q \in frame[p].downloaded :
                    DirectlyIn(q, as_posix(frame[p].target))
                        => (target_directory \o <<name(Path(q))>>) \in fs[p].files
              /\ (target_directory \o frame[p].target) \notin fs[p].dirs

\* C11: download_cached_model_from_hub called with target_directory=None while
\* NEURON_CC_FLAGS holds the --no-cache marker raises ValueError before any
\* listing or download and without a change of the local file system; with a
\* target_directory given it never raises ValueError, caching disabled or not.
C11_NoTargetNoCacheRaises ==
    \A p \in Procs :
        DownloadDone(p)
        => /\ ( frame[p].target_argument = None /\ Contains(frame[p].flags, "--no-cache") )
                => /\ frame[p].status = "raised"
                   /\ frame[p].error = "ValueError"
                   /\ frame[p].listings = <<>>
                   /\ frame[p].downloads = 0
                   /\ fs[p] = frame[p].fs_before
           /\ frame[p].target_argument # None => frame[p].error # "ValueError"

\* One process raised for want of a target directory, the other one, under the
\* same disabled caching, was given a target directory and downloaded into it.
C11_Witness ==
    \E p, q \in Procs :
        /\ DownloadDone(p) /\ DownloadDone(q)
        /\ frame[p].target_argument = None
        /\ Contains(frame[p].flags, "--no-cache")
        /\ frame[p].error = "ValueError"
        /\ frame[q].target_argument # None
        /\ Contains(frame[q].flags, "--no-cache")
        /\ frame[q].downloads = 1

\* s.split(): the tokens of a flags text, the maximal runs without a blank.
tokens(s) ==
    LET starts == { k \in 1..Len(s) :
                      SubSeq(s, k, k) # " " /\ (k = 1 \/ SubSeq(s, k - 1, k - 1) = " ") }
        stop(k) == CHOOSE j \in k..Len(s) :
                      /\ \A m \in k..j : SubSeq(s, m, m) # " "
                      /\ (j = Len(s) \/ SubSeq(s, j + 1, j + 1) = " ")
        nth(i) == CHOOSE k \in starts : Cardinality({ m \in starts : m < k }) = i - 1
    IN [ i \in 1..Cardinality(starts) |-> SubSeq(s, nth(i), stop(nth(i))) ]

\* The token is a --cache_dir=<dir> token; its <dir>.
IsCacheDirToken(t) == Len(t) >= 12 /\ SubSeq(t, 1, 12) = "--cache_dir="

CacheDirValue(t) == SubSeq(t, 13, Len(t))

GetDone(p) == pc[p] = "done" /\ frame[p].op = "get_neuron_cache_path"

SetDone(p) == pc[p] = "done" /\ frame[p].op = "set_neuron_cache_path"

\* C12: get_neuron_cache_path returns None whenever NEURON_CC_FLAGS holds the
\* --no-cache marker, with or without a --cache_dir token, before or after it.
C12_MarkerDisables ==
    \A p \in Procs :
        (GetDone(p) /\ Contains(frame[p].flags, "--no-cache")) => frame[p].ret_path = NonePath

\* get_neuron_cache_path answered None for flags whose --cache_dir token comes
\* before the marker, and for flags where it comes after it.
C12_Witness ==
    \E p, q \in Procs :
        /\ GetDone(p) /\ frame[p].ret_path = NonePath
        /\ frame[p].flags = "--cache_dir=/a --no-cache"
        /\ GetDone(q) /\ frame[q].ret_path = NonePath
        /\ frame[q].flags = "--no-cache -O1 --cache_dir=/a"

\* The positions of the --cache_dir tokens in a sequence of tokens.
CacheDirTokens(ts) == { k \in 1..Len(ts) : IsCacheDirToken(ts[k]) }

\* C13: without the --no-cache marker get_neuron_cache_path returns
\* <dir>/neuron-compile-cache, <dir> being the whole value of the --cache_dir=
\* token (up to the next blank) when there is one, /var/tmp otherwise.
C13_WholeCacheDirValue ==
    \A p \in Procs :
        (GetDone(p) /\ ~ Contains(frame[p].flags, "--no-cache"))
        => LET ts == tokens(frame[p].flags)
               first == CHOOSE k \in CacheDirTokens(ts) : \A m \in CacheDirTokens(ts) : k <= m
               dir == IF CacheDirTokens(ts) = {} THEN "/var/tmp" ELSE CacheDirValue(ts[first])
           IN frame[p].ret_path = Path(dir) \o <<NEURON_COMPILE_CACHE_NAME>>

\* C14: set_neuron_cache_path with ignore_no_cache=False under flags holding
\* the --no-cache marker raises ValueError and leaves NEURON_CC_FLAGS as it was.
C14_DisabledSetRaises ==
    \A p \in Procs :
        (SetDone(p) /\ ~ frame[p].ignore_no_cache /\ Contains(frame[p].flags, "--no-cache"))
        => /\ frame[p].status = "raised"
           /\ frame[p].error = "ValueError"
           /\ NEURON_CC_FLAGS[p] = frame[p].flags

\* A set_neuron_cache_path without ignore_no_cache was refused under flags
\* that hold a --cache_dir token next to the marker.
C14_Witness ==
    \E p \in Procs :
        /\ SetDone(p)
        /\ ~ frame[p].ignore_no_cache
        /\ frame[p].flags = "--cache_dir=/a --no-cache"
        /\ frame[p].error = "ValueError"
        /\ NEURON_CC_FLAGS[p] = "--cache_dir=/a --no-cache"

\* The tokens that a set_neuron_cache_path call has no business with.
OtherTokens(ts, ignore_no_cache) ==
    SelectSeq(ts, LAMBDA t : ~ IsCacheDirToken(t) /\ ~ (ignore_no_cache /\ t = "--no-cache"))

\* C15: after set_neuron_cache_path(p) returned, the tokens of NEURON_CC_FLAGS
\* other than --cache_dir (and the marker it was told to ignore) are the ones
\* from before the call, in their order, and there is exactly one --cache_dir
\* token, whose value is p.
C15_OneCacheDirTokenOthersKept ==
    \A p \in Procs :
        (SetDone(p) /\ frame[p].status = "returned")
        => LET before == tokens(frame[p].flags)
               after == tokens(NEURON_CC_FLAGS[p])
           IN /\ OtherTokens(after, frame[p].ignore_no_cache)
                    = OtherTokens(before, frame[p].ignore_no_cache)
              /\ Cardinality(CacheDirTokens(after)) = 1
              /\ \A k \in CacheDirTokens(after) :
                    CacheDirValue(after[k]) = posix_argument(frame[p].neuron_cache_path)

\* The calls of process p, among its completed ones, that were a
\* set_neuron_cache_path which returned.
SetCalls(p) ==
    { k \in 1..Len(history[p]) : Len(history[p][k]) >= 4 /\ SubSeq(history[p][k], 1, 4) = "set:" }

\* C20: after set_neuron_cache_path calls that returned, get_neuron_cache_path
\* returns p/neuron-compile-cache, p being the path of the last of them.
C20_SetThenGet ==
    \A p \in Procs :
        (GetDone(p) /\ SetCalls(p) # {})
        => LET last == CHOOSE k \in SetCalls(p) : \A m \in SetCalls(p) : m <= k
               path == SubSeq(history[p][last], 5, Len(history[p][last]))
           IN frame[p].ret_path = Path(path) \o <<NEURON_COMPILE_CACHE_NAME>>

\* C16: lookups and downloads leave the Hub as it is: the files of the Hub
\* change only in the upload step of push_to_cache_on_hub; and two lookups of
\* one cache path with no upload from the start of the first to the end of the
\* second, by one process or by two, return the same.
C16_OnlyUploadWrites ==
    /\ [][remote' # remote
            => \E p \in Procs :
                  /\ pc[p] = "push_upload"
                  /\ frame[p].op = "push"
                  /\ history'[p] = Append(history[p], "push:uploaded")]_vars
    /\ [](\A p \in Procs :
            (FindDone(p) /\ frame[p].previous_uploads = frame[p].uploads_after)
                => frame[p].ret_model = frame[p].previous)
    /\ [](\A p, q \in Procs :
            ( /\ FindDone(p) /\ FindDone(q)
              /\ frame[p].target = frame[q].target
              /\ frame[p].uploads_before = frame[p].uploads_after
              /\ frame[q].uploads_before = frame[q].uploads_after
              /\ frame[p].uploads_before = frame[q].uploads_before )
                => frame[p].ret_model = frame[q].ret_model)

\* After an upload by the other process, which put the entry on the Hub, a
\* process looked the entry up twice and found it both times.
C16_Witness ==
    \E p, q \in Procs :
        /\ p # q
        /\ FindDone(p)
        /\ frame[p].previous_uploads = frame[p].uploads_after
        /\ frame[p].uploads_after >= 1
        /\ frame[p].ret_model # NoModel
        /\ frame[p].ret_model = frame[p].previous
        /\ "push:uploaded" \in { history[q][k] : k \in 1..Len(history[q]) }
        /\ \A file \in remote[<<"r1", "main">>] : file.content = q

ExportDone(p) == pc[p] = "done" /\ frame[p].op = "export"

\* C17: for every model_dtypes that gives each of the four components a dtype,
\* get_stable_diffusion_models_for_export returns, with each of text_encoder,
\* unet, vae_encoder and vae_decoder taken from a pipeline of the dtype
\* assigned to it, the pipeline passed in serving the float32 group only.
C17_EveryComponentExported ==
    \A p \in Procs :
        ExportDone(p)
        => /\ frame[p].status = "returned"
           /\ \A n \in ComponentNames : frame[p].models_for_export[n] = frame[p].model_dtypes[n]
           /\ frame[p].loads = Cardinality({ frame[p].model_dtypes[n] : n \in ComponentNames } \ {"float32"})

\* The construction of process p, and the compute_hash in it, is over.
ConstructDone(p) == pc[p] = "done" /\ frame[p].op = "construct"

\* C18: when compute_hash is over, returned or raised, none of the temporary
\* directories of its hashing is left; and when serialising or hashing raised,
\* the memoized pair is still unset.
C18_TemporaryDirectoriesRemoved ==
    \A p \in Procs :
        /\ pc[p] \in {"idle", "done"} => TempDirs(fs[p]) = {} /\ fs[p].files = {}
        /\ (ConstructDone(p) /\ frame[p].status = "raised") => _hash[p] = EmptyHash

\* A compute_hash got through its first stage and raised in the second one.
C18_Witness ==
    \E p \in Procs :
        /\ ConstructDone(p)
        /\ frame[p].status = "raised"
        /\ frame[p].stage = 2
        /\ frame[p].model_hash # ""
        /\ frame[p].tmpdirname # <<>>
        /\ frame[p].tmpdirname \notin fs[p].dirs

\* Process p takes a step of its StaticTemporaryDirectory.
StaticStep(p) == frame[p].op = "static_tmp" /\ (pc'[p] # pc[p] \/ frame'[p] # frame[p])

\* C19: a StaticTemporaryDirectory removes no directory but the one it made
\* (with what is in it); when the name exists at construction or at entry,
\* FileExistsError is raised and the file system stays as it is; after a
\* successful entry the directory exists all through the body, and it is gone
\* after the exit, whether the body raised or not.
C19_RemovesOnlyItsOwnDirectory ==
    /\ [][\A p \in Procs :
            /\ \A d \in fs[p].dirs \ fs'[p].dirs :
                    /\ pc[p] = "static_body"
                    /\ frame[p].created
                    /\ starts_with(d, frame[p].dirname)
            /\ ( /\ pc[p] \in {"idle", "done"} /\ pc'[p] # "idle" /\ frame'[p].op = "static_tmp"
                  /\ frame'[p] # frame[p]
                  /\ exists(fs[p], frame'[p].dirname) )
                => /\ frame'[p].error = "FileExistsError"
                   /\ fs'[p] = fs[p]
            /\ (pc[p] = "static_enter" /\ StaticStep(p) /\ exists(fs[p], frame[p].dirname))
                => /\ frame'[p].error = "FileExistsError"
                   /\ fs'[p] = fs[p]
            /\ (pc[p] = "static_body" /\ pc'[p] = "done")
                => /\ ~ exists(fs'[p], frame[p].dirname)
                   /\ frame'[p].error \in {"", "BodyError"}]_vars
    /\ [](\A p \in Procs : pc[p] = "static_body" => frame[p].dirname \in fs[p].dirs)

\* A process whose earlier with-block ended with an exception of the body made
\* another StaticTemporaryDirectory; another party made the directory between
\* the construction and the entry: the entry raised, and the directory and
\* its file are there.
C19_Witness ==
    \E p \in Procs :
        /\ pc[p] = "done"
        /\ frame[p].op = "static_tmp"
        /\ frame[p].error = "FileExistsError"
        /\ ~ exists(frame[p].fs_before, frame[p].dirname)
        /\ frame[p].dirname \in fs[p].dirs
        /\ (frame[p].dirname \o <<"other">>) \in fs[p].files
        /\ "static_tmp:BodyError" \in { history[p][k] : k \in 1..Len(history[p]) }

\* C21: a lookup started after push_to_cache_on_hub completed an upload of the
\* fingerprint to the default repository (a file, a directory, or a directory
\* with its files in subdirectories) returns a record, for that repository,
\* whose folder is the cache path of the fingerprint.
C21_PushThenFind ==
    \A p \in Procs :
        (FindDone(p) /\ frame[p].uploads_before >= 1)
        => /\ frame[p].ret_model # NoModel
           /\ frame[p].ret_model.repo_id = HF_HUB_CACHE_REPOS[1][1]
           /\ frame[p].ret_model.folder = as_posix(frame[p].target)

====
